---- MODULE Spec2Model ----
(***************************************************************************)
(* Head-pose control pipeline of the two vision-controlled games:          *)
(*   snake     src/unnamed/part_000  (the README's "Snake Head")           *)
(*   breakout  src/src/breakout.ts                                         *)
(* Each page runs one of the two scripts; the variable game says which.    *)
(* State shared by name in both scripts (gameRunning, neutralChinPosition, *)
(* poseHistory, lastVideoTime, gameLoopId, score) is one variable here;    *)
(* the definitions of one script carry its name as a prefix.               *)
(*                                                                         *)
(* Numbers.  Every real number of the scripts (normalised landmark         *)
(* coordinates, thresholds, pixels) is kept in thousandths as an integer:  *)
(* 0.03 is 30, 120 px is 120000.  An average sum/length is never rounded   *)
(* where it is only compared: avg - n > t is checked as                    *)
(* sum - n*length > t*length.                                              *)
(***************************************************************************)
EXTENDS Integers, Sequences, FiniteSets, TLC

VARIABLES
    game,                 \* "snake" | "breakout": the script the page runs
    now,                  \* Date.now(), in ms since the page was ready
    lastVideoTime,        \* time of the last video frame handed to the detector
    gameRunning,
    neutralChinPosition,  \* Null or [x, y]
    poseHistory,          \* sequence of [timestamp, x, y]
    gameLoopId,           \* handle of the last timer / animation frame requested
    timers,               \* pending game-loop timers: set of [id, due]
    startButtonText,      \* startButton.textContent
    score,
    \* snake
    direction,
    newDirection,
    snake,                \* sequence of [x, y], head first
    food,
    \* breakout
    paddleX,
    ballX,
    ballY,
    ballDX,
    ballDY,
    lives,
    bricks,               \* the bricks [c][r] whose status is 0 (all others have 1)
    endMessage,           \* text painted by the last endGame, "" before
    frames                \* breakout frames drawn since the last resetGame (history variable)

vars == <<game, now, lastVideoTime, gameRunning, neutralChinPosition, poseHistory,
          gameLoopId, timers, startButtonText, score, direction, newDirection,
          snake, food, paddleX, ballX, ballY, ballDX, ballDY, lives, bricks,
          endMessage, frames>>

poseVars == <<neutralChinPosition, poseHistory>>
snakeVars == <<direction, newDirection, snake, food>>
breakoutVars == <<paddleX, ballX, ballY, ballDX, ballDY, lives, bricks, frames>>

Null == [absent |-> TRUE]

(***************************************************************************)
(* Bounds of the model.                                                    *)
(***************************************************************************)
\* Number of breakout frames the model follows after a resetGame.
MaxFrames == 105
\* Number of clock steps the model follows in each script.
snake_MaxClockSteps == 3
breakout_MaxClockSteps == 1

(***************************************************************************)
(* Program constants.                                                      *)
(***************************************************************************)
snake_SMOOTHING_DURATION == 500
breakout_SMOOTHING_DURATION == 200
snake_horizontalThreshold == 30
snake_verticalThreshold == 10
breakout_horizontalThreshold == 20
snake_tickPeriod == 150
MAX_SCORE == 5
gridSize == 20

SMOOTHING_DURATION == IF game = "snake" THEN snake_SMOOTHING_DURATION
                      ELSE breakout_SMOOTHING_DURATION

\* The clock is observed at the granularity of the smoothing window: a
\* sample is one or two steps old when the next one arrives, so the oldest
\* sample kept has exactly the cutoff as its timestamp.
ClockStep == SMOOTHING_DURATION

MaxClockSteps == IF game = "snake" THEN snake_MaxClockSteps ELSE breakout_MaxClockSteps

\* A handle for a new timer or animation frame: handles are only compared
\* for equality, so the model reuses one that is neither pending nor the one
\* gameLoopId still holds.
FreshHandle ==
    CHOOSE n \in 1..(Cardinality(timers) + 2) :
        n # gameLoopId /\ \A t \in timers : t.id # n

(***************************************************************************)
(* Inputs: what the detector may report for a frame.                       *)
(***************************************************************************)
Chin(x, y) == [x |-> x, y |-> y]

\* The chin positions the detector may report: the centre, one to the left
\* and above it (the video is mirrored: a larger x is "left"), one to the
\* right and below.  Their averages fall inside and outside both dead zones.
ChinSamples == {Chin(500, 500), Chin(580, 440), Chin(380, 600)}

NoFace == [face |-> FALSE]
NoChin == [face |-> TRUE, chin |-> FALSE]
Detections == {NoFace, NoChin} \cup ChinSamples

\* Math.random(), in thousandths: the outcomes the model draws from.
RandomValues == {0, 900, 950}

(***************************************************************************)
(* The canvases.  Their size is set by the page's markup, which the        *)
(* scripts only read (gameCanvas.width, gameCanvas.height); the model      *)
(* fixes small canvases so that whole games are within reach.              *)
(***************************************************************************)
snake_canvasWidth == 320
snake_canvasHeight == 320
breakout_canvasWidth == 220
breakout_canvasHeight == 62

(***************************************************************************)
(* The smoothing pipeline, common to both scripts.                         *)
(***************************************************************************)
\* Faulty variant: the neutral position follows every sample of a running game.
Calibrate_relatch(running, neutral, chin) ==
    IF running THEN Chin(chin.x, chin.y) ELSE neutral

\* Faulty variant: the neutral position is taken although no game runs.
Calibrate_whenIdle(running, neutral, chin) ==
    IF neutral = Null THEN Chin(chin.x, chin.y) ELSE neutral

\* if (gameRunning && !neutralChinPosition) neutralChinPosition = {chin.x, chin.y}
Calibrate(running, neutral, chin) ==
    IF running /\ neutral = Null THEN Chin(chin.x, chin.y) ELSE neutral

\* Faulty variant: a sample is recorded only while a game runs.
Push_onlyWhenRunning(h, t, chin) ==
    IF gameRunning THEN Append(h, [timestamp |-> t, x |-> chin.x, y |-> chin.y]) ELSE h

\* poseHistory.push({ timestamp: now, x: chin.x, y: chin.y })
Push(h, t, chin) == Append(h, [timestamp |-> t, x |-> chin.x, y |-> chin.y])

\* Faulty variant: nothing is evicted.
Prune_keepAll(h, cutoff) == h

\* while (poseHistory.length > 0 && poseHistory[0].timestamp < cutoff) poseHistory.shift()
RECURSIVE Prune(_, _)
Prune(h, cutoff) ==
    IF Len(h) > 0 /\ h[1].timestamp < cutoff THEN Prune(Tail(h), cutoff) ELSE h

\* poseHistory.reduce((sum, p) => sum + p.x, 0)
RECURSIVE SumX(_)
SumX(h) == IF h = <<>> THEN 0 ELSE h[1].x + SumX(Tail(h))

\* poseHistory.reduce((sum, p) => sum + p.y, 0)
RECURSIVE SumY(_)
SumY(h) == IF h = <<>> THEN 0 ELSE h[1].y + SumY(Tail(h))

\* Faulty variant: the cutoff lies one window ahead of the clock.
AppendAndPrune_cutoffAhead(h, t, chin, window) == Prune(Push(h, t, chin), t + window)

\* The history after the push and the eviction of one processLandmarks call.
AppendAndPrune(h, t, chin, window) == Prune(Push(h, t, chin), t - window)

\* hDiff * length and vDiff * length: (avg - neutral) scaled by the length.
HDiffTimesLen(h, neutral) == SumX(h) - neutral.x * Len(h)
VDiffTimesLen(h, neutral) == SumY(h) - neutral.y * Len(h)

(***************************************************************************)
(* Snake: the direction resolver of processLandmarks.                      *)
(***************************************************************************)
Reverse(d) == CASE d = "left" -> "right" [] d = "right" -> "left"
                [] d = "up" -> "down" [] d = "down" -> "up"

\* Faulty variant: the chain without the tests against the committed heading.
snake_resolveDirection_noGuard(h, neutral, dir, pending) ==
    LET n == Len(h)
        hDiff == HDiffTimesLen(h, neutral)
        vDiff == VDiffTimesLen(h, neutral)
        hT == snake_horizontalThreshold * n
        vT == snake_verticalThreshold * n
    IN  IF hDiff > hT THEN "left"
        ELSE IF hDiff < -hT THEN "right"
        ELSE IF vDiff < -vT THEN "up"
        ELSE IF vDiff > vT THEN "down"
        ELSE pending

\* Faulty variant: the vertical tests come before the horizontal ones.
snake_resolveDirection_verticalFirst(h, neutral, dir, pending) ==
    LET n == Len(h)
        hDiff == HDiffTimesLen(h, neutral)
        vDiff == VDiffTimesLen(h, neutral)
        hT == snake_horizontalThreshold * n
        vT == snake_verticalThreshold * n
    IN  IF vDiff < -vT /\ dir # "down" THEN "up"
        ELSE IF vDiff > vT /\ dir # "up" THEN "down"
        ELSE IF hDiff > hT /\ dir # "right" THEN "left"
        ELSE IF hDiff < -hT /\ dir # "left" THEN "right"
        ELSE pending

\* Faulty variant: the two thresholds are exchanged.
snake_resolveDirection_swappedThresholds(h, neutral, dir, pending) ==
    LET n == Len(h)
        hDiff == HDiffTimesLen(h, neutral)
        vDiff == VDiffTimesLen(h, neutral)
        hT == snake_verticalThreshold * n
        vT == snake_horizontalThreshold * n
    IN  IF hDiff > hT /\ dir # "right" THEN "left"
        ELSE IF hDiff < -hT /\ dir # "left" THEN "right"
        ELSE IF vDiff < -vT /\ dir # "down" THEN "up"
        ELSE IF vDiff > vT /\ dir # "up" THEN "down"
        ELSE pending

\* The if / else-if chain that latches newDirection.
snake_resolveDirection(h, neutral, dir, pending) ==
    LET n == Len(h)
        hDiff == HDiffTimesLen(h, neutral)
        vDiff == VDiffTimesLen(h, neutral)
        hT == snake_horizontalThreshold * n
        vT == snake_verticalThreshold * n
    IN  IF hDiff > hT /\ dir # "right" THEN "left"
        ELSE IF hDiff < -hT /\ dir # "left" THEN "right"
        ELSE IF vDiff < -vT /\ dir # "down" THEN "up"
        ELSE IF vDiff > vT /\ dir # "up" THEN "down"
        ELSE pending

\* Faulty variant: without a neutral position the centre of the picture is used.
snake_heading_defaultNeutral(h, neutral, dir, pending) ==
    IF Len(h) = 0 THEN pending
    ELSE snake_resolveDirection(h, IF neutral = Null THEN Chin(500, 500) ELSE neutral,
                                dir, pending)

\* if (poseHistory.length === 0 || !neutralChinPosition) return; then the chain.
snake_heading(h, neutral, dir, pending) ==
    IF Len(h) = 0 \/ neutral = Null THEN pending
    ELSE snake_resolveDirection(h, neutral, dir, pending)

\* processLandmarks of the snake script, for a landmark list that holds a chin.
snake_processLandmarks(chin) ==
    LET neutral == Calibrate(gameRunning, neutralChinPosition, chin)
        h == AppendAndPrune(poseHistory, now, chin, snake_SMOOTHING_DURATION)
    IN  /\ neutralChinPosition' = neutral
        /\ poseHistory' = h
        /\ newDirection' = snake_heading(h, neutral, direction, newDirection)
        /\ UNCHANGED <<direction, snake, food, score, gameRunning, gameLoopId, timers,
                       startButtonText, endMessage, breakoutVars>>

(***************************************************************************)
(* Snake: game logic.                                                      *)
(***************************************************************************)
snake_gridWidth == snake_canvasWidth \div gridSize
snake_gridHeight == snake_canvasHeight \div gridSize

Cell(x, y) == [x |-> x, y |-> y]

\* Faulty variant: only the corner of the block is compared with the snake.
OnSnake_cornerOnly(f, s) ==
    \E k \in 1..Len(s) : s[k].x = f.x /\ s[k].y = f.y

\* Some segment lies inside the 3x3 block whose corner is f.
OnSnake(f, s) ==
    \E k \in 1..Len(s) : \E i \in 0..2 : \E j \in 0..2 :
        s[k].x = f.x + i /\ s[k].y = f.y + j

\* Math.floor(Math.random() * (gridWidth - 2)), for each outcome of Math.random().
snake_randomFood ==
    { Cell((rx * (snake_gridWidth - 2)) \div 1000, (ry * (snake_gridHeight - 2)) \div 1000) :
        rx \in RandomValues, ry \in RandomValues }

\* placeFood: draws again while the block touches the snake, so it returns
\* any drawn corner whose block is free of the snake.
placeFood(s) == { f \in snake_randomFood : ~OnSnake(f, s) }

\* checkSelfCollision(head): the segments after the first are compared.
checkSelfCollision(head, s) ==
    \E i \in 2..Len(s) : head.x = s[i].x /\ head.y = s[i].y

\* Faulty variant: the head moves on without the wrap.
snake_moveHead_noWrap(h, d) ==
    Cell(CASE d = "right" -> h.x + 1 [] d = "left" -> h.x - 1 [] OTHER -> h.x,
         CASE d = "up" -> h.y - 1 [] d = "down" -> h.y + 1 [] OTHER -> h.y)

\* The head after one move in direction d, wrapped at the edges.
snake_moveHead(h, d) ==
    LET x1 == CASE d = "right" -> h.x + 1 [] d = "left" -> h.x - 1 [] OTHER -> h.x
        y1 == CASE d = "up" -> h.y - 1 [] d = "down" -> h.y + 1 [] OTHER -> h.y
        x2 == IF x1 < 0 THEN snake_gridWidth - 1
              ELSE IF x1 >= snake_gridWidth THEN 0 ELSE x1
        y2 == IF y1 < 0 THEN snake_gridHeight - 1
              ELSE IF y1 >= snake_gridHeight THEN 0 ELSE y1
    IN  Cell(x2, y2)

\* The head lies inside the 3x3 food block.
snake_onFood(head, f) ==
    /\ head.x >= f.x /\ head.x < f.x + 3
    /\ head.y >= f.y /\ head.y < f.y + 3

\* Faulty variant: endGame leaves the interval timer set.
snake_endGame_keepsTimer ==
    /\ gameRunning' = FALSE
    /\ timers' = timers
    /\ startButtonText' = "Play Again"
    /\ endMessage' = "Game Over"

\* endGame of the snake script: the flag, the interval timer, the button.
snake_endGame ==
    /\ gameRunning' = FALSE
    /\ timers' = { t \in timers : t.id # gameLoopId }
    /\ startButtonText' = "Play Again"
    /\ endMessage' = "Game Over"

\* Faulty variant: update() keeps the committed heading.
snake_commit_keep(pending) == direction

\* Faulty variant: the game goes on until the score exceeds MAX_SCORE.
snake_won_late(s) == s > MAX_SCORE

\* if (score >= MAX_SCORE)
snake_won(s) == s >= MAX_SCORE

\* Faulty variant: the tail is never dropped.
snake_pop_none(grown) == grown

\* snake.pop(): the snake without its last segment.
snake_pop(grown) == SubSeq(grown, 1, Len(grown) - 1)

\* The heading update() commits: direction = newDirection.
snake_commit(pending) == pending

\* update(): commit the pending heading, move, collide, eat or drop the tail.
\* t is the interval timer that fired; without an endGame it is due again
\* one period after it was due.
snake_update(t) ==
    LET dir == snake_commit(newDirection)
        head == snake_moveHead(snake[1], dir)
        grown == <<head>> \o snake
        rearm == (timers \ {t}) \cup {[id |-> t.id, due |-> t.due + snake_tickPeriod]}
    IN  /\ direction' = dir
        /\ IF checkSelfCollision(head, snake)
           THEN /\ snake_endGame
                /\ UNCHANGED <<snake, food, score>>
           ELSE IF snake_onFood(head, food)
           THEN /\ snake' = grown
                /\ score' = score + 1
                /\ IF snake_won(score + 1)
                   THEN snake_endGame /\ UNCHANGED food
                   ELSE /\ food' \in placeFood(grown)
                        /\ timers' = rearm
                        /\ UNCHANGED <<gameRunning, startButtonText, endMessage>>
           ELSE /\ snake' = snake_pop(grown)
                /\ timers' = rearm
                /\ UNCHANGED <<food, score, gameRunning, startButtonText, endMessage>>

\* gameLoop of the snake script, run by the interval timer: update(); draw().
snake_gameLoop ==
    /\ game = "snake"
    /\ \E t \in timers :
        /\ t.due <= now
        /\ snake_update(t)
    /\ UNCHANGED <<game, now, lastVideoTime, poseVars, newDirection, gameLoopId,
                   breakoutVars>>

\* resetGame of the snake script.
snake_resetGame ==
    /\ snake' = <<Cell(15, 15)>>
    /\ direction' = "right"
    /\ newDirection' = "right"
    /\ score' = 0
    /\ food' \in placeFood(<<Cell(15, 15)>>)
    /\ neutralChinPosition' = Null

\* startGame of the snake script: the click handler of the start button.
snake_startGame ==
    /\ game = "snake"
    /\ IF gameRunning
       THEN UNCHANGED <<gameRunning, startButtonText, snakeVars, score,
                        neutralChinPosition, gameLoopId, timers>>
       ELSE /\ gameRunning' = TRUE
            /\ startButtonText' = "Restart Game"
            /\ snake_resetGame
            /\ gameLoopId' = FreshHandle
            /\ timers' = timers \cup {[id |-> FreshHandle, due |-> now + snake_tickPeriod]}
    /\ UNCHANGED <<game, now, lastVideoTime, poseHistory, endMessage, breakoutVars>>

(***************************************************************************)
(* Breakout: constants and game logic.  Ball coordinates are whole pixels; *)
(* paddleX is kept in thousandths of a pixel.                              *)
(***************************************************************************)
paddleWidth == 120
ballRadius == 10
brickRowCount == 5
brickColumnCount == 7
brickWidth == 75
brickHeight == 20
brickPadding == 10
brickOffsetTop == 30
brickOffsetLeft == 30

\* a / b rounded to the nearest integer (b > 0), as the quotient of two
\* numbers is rounded to the nearest representable one.
RoundDiv(a, b) == (2 * a + b) \div (2 * b)

BrickIds == (0..(brickColumnCount - 1)) \X (0..(brickRowCount - 1))

\* initializeBricks(): every brick has status 1, none is broken.
initializeBricks == {}

\* The corner drawBricks gives brick [c][r].
brickX(c) == c * (brickWidth + brickPadding) + brickOffsetLeft
brickY(r) == r * (brickHeight + brickPadding) + brickOffsetTop

\* (gameCanvas.width - paddleWidth) / 2, in thousandths of a pixel.
breakout_centrePaddle == ((breakout_canvasWidth - paddleWidth) * 1000) \div 2

\* The assignments of resetGame, on the record of the game state.
breakout_resetGame(g) ==
    [g EXCEPT !.score = 0, !.lives = 3, !.frames = 0,
              !.ballX = breakout_canvasWidth \div 2,
              !.ballY = breakout_canvasHeight - 30,
              !.ballDX = 4, !.ballDY = -4,
              !.paddleX = breakout_centrePaddle,
              !.bricks = initializeBricks]

\* endGame(message), on the record: the flag and the message painted.
breakout_endGame(g, message) ==
    [g EXCEPT !.running = FALSE, !.message = message, !.ended = TRUE,
              !.button = "Play Again"]

\* collisionDetection(): the live bricks that hold the ball's centre.  The
\* bricks do not overlap, so the loop meets at most one of them.
breakout_hitBricks(g) ==
    LET x == g.ballX
        y == g.ballY
        broken == g.bricks
    IN  { b \in BrickIds :
            /\ x > brickX(b[1]) /\ x < brickX(b[1]) + brickWidth
            /\ y > brickY(b[2]) /\ y < brickY(b[2]) + brickHeight
            /\ b \notin broken }

\* The effect of the bricks hit: status 0, dy reversed, score++, and the
\* win when the score reaches the number of bricks.
breakout_applyHits(g, hit) ==
    IF hit = {} THEN g
    ELSE IF g.score + Cardinality(hit) = brickRowCount * brickColumnCount
    THEN breakout_endGame([g EXCEPT !.ballDY = IF Cardinality(hit) % 2 = 1 THEN -g.ballDY
                                                ELSE g.ballDY,
                                    !.bricks = g.bricks \cup hit,
                                    !.score = g.score + Cardinality(hit)], "You Win!")
    ELSE [g EXCEPT !.ballDY = IF Cardinality(hit) % 2 = 1 THEN -g.ballDY ELSE g.ballDY,
                   !.bricks = g.bricks \cup hit,
                   !.score = g.score + Cardinality(hit)]

collisionDetection(g) == breakout_applyHits(g, breakout_hitBricks(g))

\* The ball is above the paddle: ballX > paddleX && ballX < paddleX + paddleWidth.
breakout_onPaddle(g) ==
    /\ g.ballX * 1000 > g.paddleX
    /\ g.ballX * 1000 < g.paddleX + paddleWidth * 1000

\* Faulty variant: the first ball that is missed ends the game.
breakout_loseLife_endsAtOnce(g) ==
    breakout_endGame([g EXCEPT !.lives = g.lives - 1], "Game Over")

\* The bottom edge is missed: a life is lost, the game ends or the ball and
\* the paddle are put back.
breakout_loseLife(g) ==
    LET g1 == [g EXCEPT !.lives = g.lives - 1]
    IN  IF g1.lives = 0 THEN breakout_endGame(g1, "Game Over")
        ELSE [g1 EXCEPT !.ballX = breakout_canvasWidth \div 2,
                        !.ballY = breakout_canvasHeight - 30,
                        !.ballDX = 4, !.ballDY = -4,
                        !.paddleX = breakout_centrePaddle]

\* draw(), left and right walls: dx is reversed.
breakout_sideWalls(g) ==
    IF \/ g.ballX + g.ballDX > breakout_canvasWidth - ballRadius
       \/ g.ballX + g.ballDX < ballRadius
    THEN [g EXCEPT !.ballDX = -g.ballDX] ELSE g

\* draw(), top wall and bottom edge: dy is reversed at the top and on the
\* paddle; a ball that misses the paddle costs a life.
breakout_topAndBottom(g) ==
    IF g.ballY + g.ballDY < ballRadius
    THEN [g EXCEPT !.ballDY = -g.ballDY]
    ELSE IF g.ballY + g.ballDY > breakout_canvasHeight - ballRadius
    THEN IF breakout_onPaddle(g)
         THEN [g EXCEPT !.ballDY = -g.ballDY]
         ELSE breakout_loseLife(g)
    ELSE g

\* draw(), last lines: ballX += ballDX; ballY += ballDY.
breakout_moveBall(g) ==
    [g EXCEPT !.ballX = g.ballX + g.ballDX, !.ballY = g.ballY + g.ballDY]

\* draw(): bricks, walls, paddle or lost life, then the ball moves.
breakout_draw(g) ==
    breakout_moveBall(breakout_topAndBottom(breakout_sideWalls(collisionDetection(g))))

\* The game state of the breakout script as a record; ended records an
\* endGame call made while the record is worked on.
breakout_state ==
    [running |-> gameRunning, score |-> score, lives |-> lives,
     ballX |-> ballX, ballY |-> ballY, ballDX |-> ballDX, ballDY |-> ballDY,
     paddleX |-> paddleX, bricks |-> bricks, message |-> endMessage,
     button |-> startButtonText, ended |-> FALSE, frames |-> frames]

\* The script's variables after gameLoop() has drawn d: a new frame is
\* requested if the game still runs. endGame cancels frame gameLoopId.
breakout_afterDraw(d, pend) ==
    /\ frames' = d.frames + 1
    /\ gameRunning' = d.running
    /\ score' = d.score
    /\ lives' = d.lives
    /\ ballX' = d.ballX
    /\ ballY' = d.ballY
    /\ ballDX' = d.ballDX
    /\ ballDY' = d.ballDY
    /\ paddleX' = d.paddleX
    /\ bricks' = d.bricks
    /\ endMessage' = d.message
    /\ startButtonText' = d.button
    /\ IF d.running
       THEN /\ gameLoopId' = FreshHandle
            /\ timers' = pend \cup {[id |-> FreshHandle, due |-> 0]}
       ELSE /\ gameLoopId' = gameLoopId
            /\ timers' = IF d.ended /\ gameLoopId # 0
                          THEN { t \in pend : t.id # gameLoopId } ELSE pend

\* gameLoop() on game state g with the pending frames pend: draw(), then
\* the request of the next frame.
breakout_runGameLoop(g, pend) == breakout_afterDraw(breakout_draw(g), pend)

(***************************************************************************)
(* Breakout: the paddle resolver of processLandmarks.                      *)
(***************************************************************************)
\* (1 - avgX) * gameCanvas.width - paddleWidth / 2
breakout_directTarget(h) ==
    RoundDiv((1000 * Len(h) - SumX(h)) * breakout_canvasWidth, Len(h))
        - (paddleWidth * 1000) \div 2

\* ballX - paddleWidth / 2
breakout_assistTarget(bx) == bx * 1000 - (paddleWidth * 1000) \div 2

\* userDirection: "left" | "right" | "none" by the dead zone around neutral.
breakout_userDirection(h, neutral) ==
    LET hDiff == HDiffTimesLen(h, neutral)
        hT == breakout_horizontalThreshold * Len(h)
    IN  IF hDiff > hT THEN "left" ELSE IF hDiff < -hT THEN "right" ELSE "none"

\* Faulty variant: aim-assist also while the ball goes up.
breakout_targetPaddleX_anyBallDY(h, neutral, running, bx, bdx, bdy) ==
    IF running /\ neutral # Null
    THEN IF breakout_userDirection(h, neutral) = (IF bdx > 0 THEN "right" ELSE "left")
         THEN breakout_assistTarget(bx)
         ELSE breakout_directTarget(h)
    ELSE breakout_directTarget(h)

\* targetPaddleX: aim-assist when the ball comes down and the player moves
\* the way the ball goes, direct control otherwise.
breakout_targetPaddleX(h, neutral, running, bx, bdx, bdy) ==
    IF running /\ bdy > 0 /\ neutral # Null
    THEN IF breakout_userDirection(h, neutral) = (IF bdx > 0 THEN "right" ELSE "left")
         THEN breakout_assistTarget(bx)
         ELSE breakout_directTarget(h)
    ELSE breakout_directTarget(h)

\* Faulty variant: the factor 2 in place of 0.2.
breakout_ease_twice(p, target) == p + (target - p) * 2

\* paddleX += (targetPaddleX - paddleX) * 0.2
breakout_ease(p, target) == p + RoundDiv((target - p) * 2, 10)

\* Faulty variant: the eased position is kept as it is.
breakout_clamp_none(p) == p

\* Math.max(0, Math.min(gameCanvas.width - paddleWidth, paddleX))
breakout_clamp(p) ==
    LET hi == (breakout_canvasWidth - paddleWidth) * 1000
        m == IF p < hi THEN p ELSE hi
    IN  IF m > 0 THEN m ELSE 0

\* processLandmarks of the breakout script, for a landmark list that holds a chin.
breakout_processLandmarks(chin) ==
    LET neutral == Calibrate(gameRunning, neutralChinPosition, chin)
        h == AppendAndPrune(poseHistory, now, chin, breakout_SMOOTHING_DURATION)
    IN  /\ neutralChinPosition' = neutral
        /\ poseHistory' = h
        /\ paddleX' = IF Len(h) = 0 THEN paddleX
                      ELSE breakout_clamp(breakout_ease(paddleX,
                               breakout_targetPaddleX(h, neutral, gameRunning,
                                                      ballX, ballDX, ballDY)))
        /\ UNCHANGED <<ballX, ballY, ballDX, ballDY, lives, bricks, frames, score, gameRunning,
                       gameLoopId, timers, startButtonText, endMessage, snakeVars>>

\* gameLoop of the breakout script, run by a pending animation frame.
breakout_gameLoop ==
    /\ game = "breakout"
    /\ frames < MaxFrames
    /\ \E t \in timers : breakout_runGameLoop(breakout_state, timers \ {t})
    /\ UNCHANGED <<game, now, lastVideoTime, poseVars, snakeVars>>

\* startGame of the breakout script: a restart while the game runs, else
\* the flag, the button, resetGame() and the first gameLoop().
breakout_startGame ==
    /\ game = "breakout"
    /\ IF gameRunning
       THEN LET g == breakout_resetGame(breakout_state)
            IN  /\ score' = g.score
                /\ lives' = g.lives
                /\ ballX' = g.ballX
                /\ ballY' = g.ballY
                /\ ballDX' = g.ballDX
                /\ ballDY' = g.ballDY
                /\ paddleX' = g.paddleX
                /\ bricks' = g.bricks
                /\ frames' = g.frames
                /\ UNCHANGED <<gameRunning, startButtonText, endMessage, gameLoopId, timers>>
       ELSE breakout_runGameLoop(
                breakout_resetGame([breakout_state EXCEPT !.running = TRUE,
                                                          !.button = "Restart Game"]),
                timers)
    /\ neutralChinPosition' = Null
    /\ UNCHANGED <<game, now, lastVideoTime, poseHistory, snakeVars>>

(***************************************************************************)
(* The sampling callback, the clock, and the specification.                *)
(***************************************************************************)
\* Faulty variant: a missing chin landmark is replaced by the centre of the picture.
ChinOf_default(landmarks) ==
    IF landmarks \in ChinSamples THEN landmarks ELSE Chin(500, 500)

\* const chin = landmarks[152]: undefined when the landmark is missing.
ChinOf(landmarks) == IF landmarks \in ChinSamples THEN landmarks ELSE Null

\* What a call that returns before any assignment leaves alone.
NoEffect ==
    UNCHANGED <<poseVars, gameRunning, gameLoopId, timers, startButtonText, endMessage,
                score, snakeVars, breakoutVars>>

\* processLandmarks(landmarks): if (!chin) return; then the script's pipeline.
processLandmarks(landmarks) ==
    IF ChinOf(landmarks) = Null THEN NoEffect
    ELSE IF game = "snake" THEN snake_processLandmarks(ChinOf(landmarks))
    ELSE breakout_processLandmarks(ChinOf(landmarks))

\* video.currentTime: the frame already processed, or the frame of this instant.
VideoTimes == {now} \cup (IF lastVideoTime >= 0 THEN {lastVideoTime} ELSE {})

\* results.faceLandmarks.length > 0
HasFace(results) == results # NoFace

\* Faulty variant: every callback takes the frame for a new one.
IsNewFrame_always(videoTime) == TRUE

\* videoTime !== lastVideoTime
IsNewFrame(videoTime) == videoTime # lastVideoTime

\* One run of predictWebcam with the video at videoTime and the detector
\* reporting results.
predictWebcamOn(videoTime, results) ==
    /\ IF IsNewFrame(videoTime)
       THEN /\ lastVideoTime' = videoTime
            /\ IF HasFace(results) THEN processLandmarks(results) ELSE NoEffect
       ELSE UNCHANGED lastVideoTime /\ NoEffect
    /\ UNCHANGED <<game, now>>

\* predictWebcam: one run of the animation-frame callback that samples the video.
predictWebcam ==
    \E videoTime \in VideoTimes, results \in Detections :
        predictWebcamOn(videoTime, results)

\* Date.now() moves on by one clock step.
advanceClock ==
    /\ now < MaxClockSteps * ClockStep
    /\ now' = now + ClockStep
    /\ UNCHANGED <<game, lastVideoTime, gameRunning, poseVars, gameLoopId, timers,
                   startButtonText, endMessage, score, snakeVars, breakoutVars>>

\* The state of the breakout script before its initial draw().
breakout_initial ==
    [running |-> FALSE, score |-> 0, lives |-> 3,
     ballX |-> breakout_canvasWidth \div 2, ballY |-> breakout_canvasHeight - 30,
     ballDX |-> 4, ballDY |-> -4, paddleX |-> breakout_centrePaddle,
     bricks |-> initializeBricks, message |-> "", button |-> "Start Game",
     ended |-> FALSE, frames |-> 0]

\* The page once the model and the webcam are loaded and the start button enabled.
Init ==
    /\ game \in {"snake", "breakout"}
    /\ now = 0
    /\ lastVideoTime = -1
    /\ gameRunning = FALSE
    /\ neutralChinPosition = Null
    /\ poseHistory = <<>>
    /\ gameLoopId = 0
    /\ timers = {}
    /\ startButtonText = "Start Game"
    /\ score = 0
    /\ endMessage = ""
    /\ IF game = "snake"
       THEN /\ direction = "right"
            /\ newDirection = "right"
            /\ snake = <<Cell(15, 15)>>
            /\ food = Null
            /\ paddleX = 0 /\ ballX = 0 /\ ballY = 0 /\ ballDX = 0 /\ ballDY = 0
            /\ lives = 0 /\ bricks = {} /\ frames = 0
       ELSE /\ direction = "none" /\ newDirection = "none"
            /\ snake = <<>> /\ food = Null
            /\ LET d == breakout_draw(breakout_initial)
               IN  /\ paddleX = d.paddleX
                   /\ ballX = d.ballX /\ ballY = d.ballY
                   /\ ballDX = d.ballDX /\ ballDY = d.ballDY
                   /\ lives = d.lives /\ bricks = d.bricks /\ frames = 0

Next ==
    \/ predictWebcam
    \/ advanceClock
    \/ snake_startGame
    \/ snake_gameLoop
    \/ breakout_startGame
    \/ breakout_gameLoop

Spec == Init /\ [][Next]_vars

(***************************************************************************)
(* Steps of the handlers, told by their effect.                            *)
(***************************************************************************)
\* A processLandmarks call: it is the only code that writes poseHistory, and
\* the sample it pushes carries a timestamp no earlier sample has.
SampleStep == poseHistory' # poseHistory

\* A tick of the snake's interval timer: it re-arms or clears the timer.
snake_TickStep == game = "snake" /\ gameRunning /\ timers' # timers

\* A startGame call that starts a session of a stopped game.
StartStep == ~gameRunning /\ gameRunning'

\* Either script's click handler of the start button.
StartGame == snake_startGame \/ breakout_startGame

\* A session has ended and none was started since.
Ended == ~gameRunning /\ startButtonText = "Play Again"

Directions == {"left", "right", "up", "down"}

Last(h) == h[Len(h)]

\* |hDiff| > threshold and |vDiff| > threshold for the window h, scaled by Len(h).
snake_hExceeds(h, neutral) ==
    \/ HDiffTimesLen(h, neutral) > snake_horizontalThreshold * Len(h)
    \/ HDiffTimesLen(h, neutral) < -(snake_horizontalThreshold * Len(h))

snake_vExceeds(h, neutral) ==
    \/ VDiffTimesLen(h, neutral) > snake_verticalThreshold * Len(h)
    \/ VDiffTimesLen(h, neutral) < -(snake_verticalThreshold * Len(h))

(***************************************************************************)
(* C1.  Snake: the pending heading is never the reverse of the committed   *)
(* heading, and a tick never commits the reverse of the heading the        *)
(* previous tick committed.                                                *)
(***************************************************************************)
C1_NoReverse ==
    /\ [](game = "snake" => newDirection # Reverse(direction))
    /\ [][snake_TickStep => direction' # Reverse(direction)]_vars

\* A sample pulled the average to the left of neutral while the snake heads
\* right: "left" was not latched, the vertical test latched "up".
C1_Witness ==
    /\ game = "snake" /\ gameRunning /\ neutralChinPosition # Null
    /\ Len(poseHistory) > 0
    /\ HDiffTimesLen(poseHistory, neutralChinPosition)
           > snake_horizontalThreshold * Len(poseHistory)
    /\ direction = "right" /\ newDirection = "up"

(***************************************************************************)
(* C2.  Both games: once set, neutralChinPosition is changed by no         *)
(* processLandmarks call; it is the (x, y) of the first sample processed   *)
(* in the running session, and only a resetGame makes it absent again.     *)
(***************************************************************************)
C2_NeutralLatch ==
    [][ /\ (neutralChinPosition # Null /\ SampleStep
               => neutralChinPosition' = neutralChinPosition)
        /\ (neutralChinPosition = Null /\ gameRunning /\ SampleStep
               => neutralChinPosition' = Chin(Last(poseHistory').x, Last(poseHistory').y))
        /\ (neutralChinPosition # Null /\ neutralChinPosition' # neutralChinPosition
               => /\ neutralChinPosition' = Null
                  /\ score' = 0
                  /\ (game = "snake" => snake' = <<Cell(15, 15)>>)
                  /\ (game = "breakout" => lives' = 3 /\ bricks' = initializeBricks))
      ]_vars

\* A later sample of the session, different from the neutral one, was
\* processed and the neutral position is still the first one.
C2_Witness ==
    /\ gameRunning /\ neutralChinPosition # Null
    /\ Len(poseHistory) >= 2
    /\ poseHistory[1].x = neutralChinPosition.x /\ poseHistory[1].y = neutralChinPosition.y
    /\ Last(poseHistory).x # neutralChinPosition.x

(***************************************************************************)
(* C3.  Both games: a sample processed while gameRunning is false leaves   *)
(* neutralChinPosition as it is, and before the first start command it is  *)
(* absent however many samples arrive.                                     *)
(***************************************************************************)
C3_IdleNeverCalibrates ==
    /\ [](startButtonText = "Start Game" => neutralChinPosition = Null)
    /\ [][~gameRunning /\ SampleStep => neutralChinPosition' = neutralChinPosition]_vars

\* Two samples were processed before the first start command.
C3_Witness ==
    /\ startButtonText = "Start Game" /\ ~gameRunning
    /\ Len(poseHistory) >= 2
    /\ neutralChinPosition = Null

(***************************************************************************)
(* C4.  Both games: every start command, one issued while a session is     *)
(* active included, leaves the neutral position absent (so that the next   *)
(* sample becomes the new neutral).                                        *)
(***************************************************************************)
C4_StartDiscardsNeutral ==
    ~ENABLED (StartGame /\ neutralChinPosition' # Null)

(***************************************************************************)
(* C5.  Both games: every start command leaves poseHistory empty and the   *)
(* neutral position absent.                                                *)
(***************************************************************************)
C5_StartClearsPose ==
    ~ENABLED (StartGame /\ ~(poseHistory' = <<>> /\ neutralChinPosition' = Null))

(***************************************************************************)
(* C6.  Both games: right after the append-and-prune step the history      *)
(* holds no sample older than now - SMOOTHING_DURATION, is ordered by      *)
(* timestamp, and is the old history with the new sample appended and      *)
(* some prefix removed.                                                    *)
(***************************************************************************)
C6_WindowAfterPrune ==
    [][SampleStep =>
        /\ \A i \in 1..Len(poseHistory') :
               poseHistory'[i].timestamp >= now - SMOOTHING_DURATION
        /\ \A i \in 1..Len(poseHistory') : \A j \in i..Len(poseHistory') :
               poseHistory'[i].timestamp <= poseHistory'[j].timestamp
        /\ \E chin \in ChinSamples : \E k \in 0..(Len(poseHistory) + 1) :
               poseHistory' = SubSeq(Push(poseHistory, now, chin), k + 1,
                                     Len(poseHistory) + 1)
      ]_vars

\* The sample that set the neutral position was pushed by the same call and
\* is no longer in the window: it has been evicted, and the oldest sample
\* kept lies exactly on the cutoff.
C6_Witness ==
    /\ gameRunning /\ neutralChinPosition # Null
    /\ Len(poseHistory) = 2
    /\ \A i \in 1..Len(poseHistory) :
           Chin(poseHistory[i].x, poseHistory[i].y) # neutralChinPosition
    /\ poseHistory[1].timestamp = now - SMOOTHING_DURATION
    /\ poseHistory[2].timestamp = now

C8_CommitAtTick ==
    [][game = "snake"
          => /\ (SampleStep => direction' = direction)
             /\ (snake_TickStep => direction' = newDirection)
             /\ (direction' # direction
                    => \/ snake_TickStep
                       \/ StartStep /\ direction' = "right")
      ]_vars

\* A heading committed by a tick ("up") with another one pending ("left").
C8_Witness ==
    /\ game = "snake" /\ gameRunning
    /\ direction = "up" /\ newDirection = "left"
    /\ Len(snake) >= 2

(***************************************************************************)
(* C9, as the claim states it.  Snake: whenever |hDiff| > 0.03 for the     *)
(* window of a processed sample, the pending heading becomes a horizontal  *)
(* one or stays what it was, whatever the committed heading.               *)
(***************************************************************************)
C9_HorizontalAlwaysWins ==
    [][game = "snake" /\ SampleStep /\ neutralChinPosition' # Null
          /\ snake_hExceeds(poseHistory', neutralChinPosition')
          => newDirection' \in {newDirection, "left", "right"}]_vars

(***************************************************************************)
(* C9, as the code has it.  Snake: when |hDiff| > 0.03 and the horizontal  *)
(* candidate is not the reverse of the committed heading, the candidate    *)
(* becomes the pending heading whatever vDiff is; when it is the reverse   *)
(* it is skipped and the vertical deviation decides: "up" below -0.01,     *)
(* "down" above 0.01, otherwise no change.                                 *)
(***************************************************************************)
C9_HorizontalWinsUnlessReverse ==
    [][game = "snake" /\ SampleStep /\ neutralChinPosition' # Null
          /\ snake_hExceeds(poseHistory', neutralChinPosition')
          => LET h == poseHistory'
                 hDiff == HDiffTimesLen(h, neutralChinPosition')
                 vDiff == VDiffTimesLen(h, neutralChinPosition')
                 vT == snake_verticalThreshold * Len(h)
                 candidate == IF hDiff > 0 THEN "left" ELSE "right"
             IN  IF candidate # Reverse(direction)
                 THEN newDirection' = candidate
                 ELSE newDirection' = IF vDiff < -vT THEN "up"
                                      ELSE IF vDiff > vT THEN "down"
                                      ELSE newDirection
      ]_vars

\* Both deviations exceed their thresholds (left and up) while the snake
\* heads up: the horizontal candidate "left" is the pending heading.
C9_Witness ==
    /\ game = "snake" /\ gameRunning /\ neutralChinPosition # Null
    /\ Len(poseHistory) > 0
    /\ HDiffTimesLen(poseHistory, neutralChinPosition)
           > snake_horizontalThreshold * Len(poseHistory)
    /\ VDiffTimesLen(poseHistory, neutralChinPosition)
           < -(snake_verticalThreshold * Len(poseHistory))
    /\ direction = "up" /\ newDirection = "left"

(***************************************************************************)
(* C10.  Snake: a processed sample whose window has |hDiff| <= 0.03 and    *)
(* |vDiff| <= 0.01 leaves newDirection and direction unchanged; with the   *)
(* neutral position (0.5, 0.5) and the window [(0.52, 0.5)] no heading is  *)
(* latched, whatever the committed and the pending heading are.            *)
(***************************************************************************)
C10_DeadZone ==
    /\ \A d \in Directions : \A pending \in Directions :
           snake_resolveDirection(<<[timestamp |-> 0, x |-> 520, y |-> 500]>>,
                                  Chin(500, 500), d, pending) = pending
    /\ [][game = "snake" /\ SampleStep /\ neutralChinPosition' # Null
            /\ ~snake_hExceeds(poseHistory', neutralChinPosition')
            /\ ~snake_vExceeds(poseHistory', neutralChinPosition')
            => newDirection' = newDirection /\ direction' = direction]_vars

\* The sample of this instant gave a window inside the dead zone while a
\* heading latched earlier was pending: it is still pending, not yet committed.
C10_Witness ==
    /\ game = "snake" /\ gameRunning /\ neutralChinPosition # Null
    /\ Len(poseHistory) >= 1
    /\ Last(poseHistory).timestamp = now
    /\ ~snake_hExceeds(poseHistory, neutralChinPosition)
    /\ ~snake_vExceeds(poseHistory, neutralChinPosition)
    /\ newDirection # direction

\* The paddle position a sample gives when its target is t.
breakout_paddleAfter(t) == breakout_clamp(breakout_ease(paddleX, t))

\* The window h deviates from neutral by more than 0.02 to the side the
\* ball moves to: chin x above neutral is "left", below neutral is "right".
breakout_movesWithBall(h, neutral, bdx) ==
    IF bdx > 0
    THEN HDiffTimesLen(h, neutral) < -(breakout_horizontalThreshold * Len(h))
    ELSE HDiffTimesLen(h, neutral) > breakout_horizontalThreshold * Len(h)

(***************************************************************************)
(* C11.  Breakout: a processed sample steers the paddle to the target      *)
(* ballX - paddleWidth/2 exactly when the game runs, the ball comes down   *)
(* (ballDY > 0), a neutral position exists and the window deviates from    *)
(* neutral by more than 0.02 to the side the ball moves to; in every other *)
(* case the target is (1 - avgX) * canvasWidth - paddleWidth/2.            *)
(***************************************************************************)
C11_AimAssistDecision ==
    [][game = "breakout" /\ SampleStep
          => IF /\ gameRunning /\ ballDY > 0 /\ neutralChinPosition' # Null
                /\ breakout_movesWithBall(poseHistory', neutralChinPosition', ballDX)
             THEN paddleX' = breakout_paddleAfter(ballX * 1000 - (paddleWidth * 1000) \div 2)
             ELSE paddleX' = breakout_paddleAfter(breakout_directTarget(poseHistory'))
      ]_vars

\* The ball comes down in a running game and a sample can be processed whose
\* window moves with the ball: it steers to the ball, and direct control
\* would have put the paddle elsewhere.
C11_Witness ==
    /\ game = "breakout" /\ gameRunning /\ ballDY > 0 /\ neutralChinPosition # Null
    /\ ENABLED (/\ predictWebcam /\ SampleStep
                /\ breakout_movesWithBall(poseHistory', neutralChinPosition', ballDX)
                /\ paddleX' = breakout_paddleAfter(breakout_assistTarget(ballX))
                /\ paddleX' # breakout_paddleAfter(breakout_directTarget(poseHistory')))

\* p lies in [0, canvasWidth - paddleWidth].
breakout_inCanvas(p) == 0 <= p /\ p <= (breakout_canvasWidth - paddleWidth) * 1000

\* Paddle positions across the canvas and targets from half a paddle left of
\* it to its right edge (a chin or a ball anywhere in the picture), in steps
\* of ten pixels.
breakout_paddleProbes == { k * 10000 : k \in 0..((breakout_canvasWidth - paddleWidth) \div 10) }

breakout_targetProbes ==
    { k * 10000 - (paddleWidth * 1000) \div 2 : k \in 0..(breakout_canvasWidth \div 10) }

\* The clamp brings every eased position of the probes back into the canvas,
\* and some of them have left it.
breakout_clampKeepsInside ==
    /\ \A p \in breakout_paddleProbes : \A t \in breakout_targetProbes :
           breakout_inCanvas(breakout_clamp(breakout_ease(p, t)))
    /\ \E p \in breakout_paddleProbes : \E t \in breakout_targetProbes :
           ~breakout_inCanvas(breakout_ease(p, t))

(***************************************************************************)
(* C12.  Breakout: paddleX lies in [0, canvasWidth - paddleWidth] in every *)
(* reachable state, and the position processLandmarks computes from a      *)
(* paddle inside the canvas lies in that range for every target a chin or  *)
(* a ball inside the picture can give, also where the eased position       *)
(* leaves the canvas.                                                      *)
(***************************************************************************)
C12_PaddleInCanvas ==
    /\ game = "breakout" => breakout_inCanvas(paddleX)
    /\ breakout_clampKeepsInside

\* A life was lost, the paddle was put back to the centre, and a sample has
\* moved it from there.
C12_Witness ==
    /\ game = "breakout" /\ gameRunning /\ lives < 3
    /\ paddleX # breakout_centrePaddle
    /\ Len(poseHistory) > 0 /\ Last(poseHistory).timestamp = now

Abs(n) == IF n < 0 THEN -n ELSE n

\* q lies between p and t, the ends included.
Between(p, q, t) == (p <= q /\ q <= t) \/ (t <= q /\ q <= p)

\* From 100 px with the target 200 px the easing gives 120 px and then
\* 136 px; over the probes a step is a fifth of the distance (to the
\* thousandth of a pixel) and ends between the position and the target.
breakout_easeIsAFifth ==
    /\ breakout_ease(100000, 200000) = 120000
    /\ breakout_ease(120000, 200000) = 136000
    /\ \A p \in breakout_paddleProbes : \A t \in breakout_targetProbes :
           /\ 5 * (breakout_ease(p, t) - p) = t - p
           /\ Between(p, breakout_ease(p, t), t)

\* A step that moves the paddle toward the target of its sample: it ends
\* between the old position and the target, no farther from the target than
\* before, and, where the clamp does not cut it, a fifth of the distance on
\* (to the thousandth of a pixel).
breakout_easedStep ==
    LET t == breakout_targetPaddleX(poseHistory', neutralChinPosition',
                                    gameRunning, ballX, ballDX, ballDY)
        hi == (breakout_canvasWidth - paddleWidth) * 1000
    IN  /\ Between(paddleX, paddleX', t)
        /\ Abs(t - paddleX') <= Abs(t - paddleX)
        /\ (0 < paddleX' /\ paddleX' < hi)
               => Abs(5 * (paddleX' - paddleX) - (t - paddleX)) <= 2

(***************************************************************************)
(* C13.  Breakout: a processed sample moves paddleX toward its target by   *)
(* 0.2 of the remaining distance before the clamp (100 with target 200     *)
(* gives 120, then 136); the step ends between the old position and the    *)
(* target, so it neither overshoots nor increases |target - paddleX|.      *)
(***************************************************************************)
C13_Easing ==
    [][/\ breakout_easeIsAFifth
       /\ game = "breakout" /\ SampleStep => breakout_easedStep
      ]_vars

\* The first sample, chin x 0.58, was processed with the paddle at the
\* centre, 50 px: the target is 0.42 * 220 - 60 = 32.4 px and the paddle has
\* moved a fifth of the 17.6 px, to 46.48 px.
C13_Witness ==
    /\ game = "breakout"
    /\ Len(poseHistory) = 1 /\ poseHistory[1].x = 580
    /\ paddleX = 46480

\* What the pose pipeline puts out: the window, the neutral position and the
\* control of either game.
poseOutput == <<poseHistory, neutralChinPosition, newDirection, direction, paddleX>>

(***************************************************************************)
(* C14.  A frame in which no face is detected, or whose face has no chin   *)
(* landmark 152, is a no-op: whenever the callback runs on such a frame,   *)
(* poseHistory, neutralChinPosition, newDirection, direction and paddleX   *)
(* stay as they are and no sample is appended.                             *)
(***************************************************************************)
C14_NoFaceNoOp ==
    \A videoTime \in VideoTimes : \A results \in {NoFace, NoChin} :
        ~ENABLED (predictWebcamOn(videoTime, results) /\ poseOutput' # poseOutput)

\* The frame of this instant was taken in a running game and left neither
\* a sample nor a neutral position: it held no face or no chin.
C14_Witness ==
    /\ gameRunning /\ lastVideoTime = now
    /\ neutralChinPosition = Null
    /\ \A k \in 1..Len(poseHistory) : poseHistory[k].timestamp < now
    /\ ENABLED (predictWebcamOn(now, NoChin) /\ poseOutput' = poseOutput)

\* A step that is a click on the start button and nothing else: no frame
\* is taken and no sample is appended.
StartCommand ==
    /\ startButtonText' = "Restart Game"
    /\ timers' # {}
    /\ UNCHANGED <<poseHistory, lastVideoTime>>

\* A step that is a game tick which met a terminal condition: in snake the
\* interval timer was due and the fifth food was eaten or the moved head hit
\* the body; in breakout a frame was drawn and the last life was lost or the
\* last brick was broken.
TerminalTick ==
    /\ UNCHANGED <<poseHistory, lastVideoTime>>
    /\ startButtonText' = "Play Again"
    /\ IF game = "snake"
       THEN /\ \E t \in timers : t.due <= now
            /\ timers' = {}
            /\ \/ score' = MAX_SCORE /\ score = MAX_SCORE - 1
               \/ /\ score' = score
                  /\ \E k \in 1..Len(snake) :
                         snake[k] = snake_moveHead(snake[1], newDirection)
       ELSE /\ timers # {} /\ frames' = frames + 1
            /\ \/ lives' = 0 /\ lives = 1
               \/ score' = brickRowCount * brickColumnCount /\ score' > score

(***************************************************************************)
(* C15.  Pose data alone causes no session transition: a processed sample  *)
(* changes neither gameRunning, the score, the lives nor the snake;        *)
(* gameRunning becomes true only in a step of the start command and false  *)
(* only in a game tick that met a terminal condition (win or lose).        *)
(***************************************************************************)
C15_NoPoseTransitions ==
    [][/\ SampleStep => UNCHANGED <<gameRunning, score, lives, snake>>
       /\ (~gameRunning /\ gameRunning') => StartCommand
       /\ (gameRunning /\ ~gameRunning') => TerminalTick
      ]_vars

\* A breakout session in which samples were processed has ended with the
\* last life lost in a frame; the window still holds a sample.
C15_Witness ==
    /\ game = "breakout" /\ Ended /\ lives = 0
    /\ neutralChinPosition # Null /\ Len(poseHistory) > 0

(***************************************************************************)
(* C16.  Snake: when the resolver is reached while no neutral position     *)
(* exists, it holds the heading: a sample processed with                   *)
(* neutralChinPosition absent at the resolver's guard leaves newDirection  *)
(* and direction unchanged.                                                *)
(***************************************************************************)
C16_NoNeutralHoldsHeading ==
    [][game = "snake" /\ SampleStep /\ neutralChinPosition' = Null
          => UNCHANGED <<newDirection, direction>>
      ]_vars

\* No game runs and no neutral position exists; the sample of this instant,
\* chin (0.58, 0.44), is in the window and the heading is the initial one.
C16_Witness ==
    /\ game = "snake" /\ ~gameRunning /\ neutralChinPosition = Null
    /\ Len(poseHistory) >= 1
    /\ Last(poseHistory).timestamp = now /\ Last(poseHistory).x = 580
    /\ newDirection = "right" /\ direction = "right"

(***************************************************************************)
(* C17.  A video frame is processed at most once: whenever the sampling    *)
(* callback runs while the video time equals lastVideoTime, whatever the   *)
(* detector would report, no sample is appended and no variable changes    *)
(* (the callback only requests its next run).                              *)
(***************************************************************************)
C17_FrameProcessedOnce ==
    lastVideoTime >= 0
        => \A results \in Detections :
              ~ENABLED (predictWebcamOn(lastVideoTime, results) /\ vars' # vars)

\* The frame of this instant gave the newest sample of the window, and the
\* callback can run again on the same frame, with a chin in it, as a step
\* that changes nothing.
C17_Witness ==
    /\ lastVideoTime = now
    /\ Len(poseHistory) >= 1 /\ Last(poseHistory).timestamp = now
    /\ ENABLED (predictWebcamOn(lastVideoTime, Chin(380, 600)) /\ UNCHANGED vars)

(***************************************************************************)
(* C18.  Snake: the game ends when MAX_SCORE (5) food is collected.  The   *)
(* score never exceeds MAX_SCORE, and once it is MAX_SCORE the session is  *)
(* over: gameRunning is false, the interval timer is cleared and no tick   *)
(* can run, until a start command resets the score.                        *)
(***************************************************************************)
C18_WinAtMaxScore ==
    game = "snake"
        => /\ score <= MAX_SCORE
           /\ score = MAX_SCORE
                 => /\ ~gameRunning
                    /\ timers = {}
                    /\ ~ENABLED snake_gameLoop

\* The fifth food was eaten: the head lies in the food block, the session
\* has ended and the button offers another game.
C18_Witness ==
    /\ game = "snake" /\ score = MAX_SCORE
    /\ Ended /\ endMessage = "Game Over"
    /\ snake_onFood(snake[1], food)

\* The cell c lies inside the grid.
snake_inGrid(c) ==
    /\ 0 <= c.x /\ c.x < snake_gridWidth
    /\ 0 <= c.y /\ c.y < snake_gridHeight

\* A head that steps off an edge comes back at the opposite edge of the same
\* row or column, and a head that stays on the grid moves by one cell.
snake_wrapsAround ==
    /\ \A y \in 0..(snake_gridHeight - 1) :
           /\ snake_moveHead(Cell(snake_gridWidth - 1, y), "right") = Cell(0, y)
           /\ snake_moveHead(Cell(0, y), "left") = Cell(snake_gridWidth - 1, y)
           /\ snake_moveHead(Cell(0, y), "right") = Cell(1, y)
    /\ \A x \in 0..(snake_gridWidth - 1) :
           /\ snake_moveHead(Cell(x, snake_gridHeight - 1), "down") = Cell(x, 0)
           /\ snake_moveHead(Cell(x, 0), "up") = Cell(x, snake_gridHeight - 1)
           /\ snake_moveHead(Cell(x, 0), "down") = Cell(x, 1)

(***************************************************************************)
(* C19.  Snake: the playfield wraps.  Every segment of the snake lies      *)
(* inside the grid (0 <= x < gridWidth, 0 <= y < gridHeight) in every      *)
(* reachable state, and a head that steps off an edge re-enters at the     *)
(* opposite edge of the same row or column.                                *)
(***************************************************************************)
C19_Wraps ==
    /\ game = "snake" => \A k \in 1..Len(snake) : snake_inGrid(snake[k])
    /\ snake_wrapsAround

\* The snake has stepped off the right edge and off the bottom edge: its
\* head is in the top row with the next segment in the bottom row of the same
\* column, and farther back a segment in the leftmost column follows one in
\* the rightmost column of the same row.
C19_Witness ==
    /\ game = "snake" /\ Len(snake) >= 3
    /\ snake[1].y = 0
    /\ snake[2].y = snake_gridHeight - 1 /\ snake[2].x = snake[1].x
    /\ \E k \in 2..(Len(snake) - 1) :
           /\ snake[k].x = 0 /\ snake[k + 1].x = snake_gridWidth - 1
           /\ snake[k].y = snake[k + 1].y

\* The 3x3 block with corner f lies inside the grid and holds no segment of s.
snake_foodIsFree(f, s) ==
    /\ 0 <= f.x /\ f.x + 2 < snake_gridWidth
    /\ 0 <= f.y /\ f.y + 2 < snake_gridHeight
    /\ \A k \in 1..Len(s) :
           \/ s[k].x < f.x \/ s[k].x > f.x + 2
           \/ s[k].y < f.y \/ s[k].y > f.y + 2

(***************************************************************************)
(* C20.  Snake: food never spawns on the snake.  Whenever placeFood has    *)
(* returned, at a start and after each food but the last, no segment lies  *)
(* inside the 3x3 food block and the whole block lies inside the grid;     *)
(* the game runs in these states, and the food stays in that position      *)
(* for as long as it runs.                                                 *)
(***************************************************************************)
C20_FoodOffSnake ==
    game = "snake" /\ gameRunning => snake_foodIsFree(food, snake)

\* Three foods were eaten and a fourth was placed: a segment of the snake
\* lies in the column right of the food block, in one of the block's rows.
C20_Witness ==
    /\ game = "snake" /\ gameRunning /\ score >= 3
    /\ \E k \in 1..Len(snake) :
           /\ snake[k].x = food.x + 3
           /\ snake[k].y >= food.y /\ snake[k].y <= food.y + 2

\* The entry a sample with chin c leaves in the history at this instant.
SampleNow(c) == [timestamp |-> now, x |-> c.x, y |-> c.y]

\* Whatever chin is appended to the history of this state, the history
\* after the eviction is not empty and ends with the sample just appended.
KeepsNewSample ==
    \A c \in ChinSamples :
        LET h == AppendAndPrune(poseHistory, now, c, SMOOTHING_DURATION)
        IN  Len(h) >= 1 /\ h[Len(h)] = SampleNow(c)

(***************************************************************************)
(* C21.  After the append-and-prune step of processLandmarks the pose      *)
(* history is never empty: its last element is the sample just appended,   *)
(* whatever the history was before, so the exit for an empty history is    *)
(* never taken.                                                            *)
(***************************************************************************)
C21_HistoryKeepsNewSample ==
    /\ []KeepsNewSample
    /\ [][(lastVideoTime' # lastVideoTime /\ poseOutput' # poseOutput)
             => /\ Len(poseHistory') >= 1
                /\ \E c \in ChinSamples : Last(poseHistory') = SampleNow(c)
         ]_vars

\* The sample of this instant is alone in the window of a running game:
\* the sample that gave the neutral position, another chin, has been evicted.
C21_Witness ==
    /\ gameRunning /\ neutralChinPosition # Null
    /\ Len(poseHistory) = 1
    /\ poseHistory[1].timestamp = now /\ lastVideoTime = now
    /\ poseHistory[1].x # neutralChinPosition.x

(***************************************************************************)
(* C22.  At most one game loop is scheduled at any time, and one is        *)
(* scheduled exactly when gameRunning is true: the snake script never has  *)
(* two interval timers set and the breakout script never has two game-loop *)
(* animation frames pending, and the one that is scheduled is the one      *)
(* gameLoopId names.                                                       *)
(***************************************************************************)
C22_OneGameLoop ==
    /\ Cardinality(timers) <= 1
    /\ gameRunning <=> timers # {}
    /\ \A t \in timers : t.id = gameLoopId

\* A session has ended and another was started: the message of the ended
\* session is still set, the game runs and exactly one loop is scheduled.
C22_Witness ==
    /\ gameRunning /\ endMessage # ""
    /\ startButtonText = "Restart Game"
    /\ Cardinality(timers) = 1

(***************************************************************************)
(* C23.  Snake: the body length equals score + 1 in every reachable state. *)
(* A tick whose moved head enters the food block grows the snake by one    *)
(* segment and adds one to the score; a tick that ends in a self-collision *)
(* changes neither the snake nor the score; any other tick keeps both      *)
(* the length and the score.                                               *)
(***************************************************************************)
C23_LengthIsScorePlusOne ==
    /\ [](game = "snake" => Len(snake) = score + 1)
    /\ [][snake_TickStep
             => LET head == snake_moveHead(snake[1], newDirection)
                IN  IF checkSelfCollision(head, snake)
                    THEN snake' = snake /\ score' = score
                    ELSE IF snake_onFood(head, food)
                    THEN Len(snake') = Len(snake) + 1 /\ score' = score + 1
                    ELSE Len(snake') = Len(snake) /\ score' = score
         ]_vars

\* A session with food eaten has ended in a self-collision: the score is
\* below MAX_SCORE and the snake is one segment longer than the score.
C23_Witness ==
    /\ game = "snake" /\ Ended
    /\ score >= 1 /\ score < MAX_SCORE
    /\ Len(snake) = score + 1

====
